---- MODULE Spec2Model ----
(***************************************************************************)
(* Collection sharing of twistedcaldav (sharing.py): the invite store of   *)
(* one collection (InvitesDatabase), the shared-owner marker of the        *)
(* collection's resource type, and the POST handler that reconciles a      *)
(* batch of invite set/remove operations (SharingMixin.xmlPOSTAuth).       *)
(***************************************************************************)
EXTENDS Integers, Sequences, FiniteSets, TLC

(***************************************************************************)
(* Bounds of the model.                                                    *)
(***************************************************************************)
\* longest request body (number of CS:set / CS:remove children)
MaxBatch == 2
\* number of invite uids uuid4() hands out in one behaviour
MaxUID == 3
\* most pairs of a CS:set and a CS:remove of one user id in a request body
MaxPairs == 2
\* most shared-owner children the resource type is let to collect
MaxMarkers == 1

None == "None"

(***************************************************************************)
(* The directory: principals, their URLs and calendar user addresses.      *)
(***************************************************************************)
Principals == {"alice", "bob"}

principalURL(p) ==
    IF p = "alice" THEN "/principals/users/alice" ELSE "/principals/users/bob"

recordCalendarUserAddresses(p) ==
    IF p = "alice" THEN {"mailto:alice@example.com"} ELSE {"mailto:bob@example.com"}

calendarUserAddresses(p) == {principalURL(p)} \cup recordCalendarUserAddresses(p)

\* every user id a request may name
UserIDs == UNION {calendarUserAddresses(p) : p \in Principals}

\* the user ids in ascending lexical (byte) order, "/" sorting before "m"
UserIDOrder ==
    << "/principals/users/alice", "/principals/users/bob",
       "mailto:alice@example.com", "mailto:bob@example.com" >>

sorted(S) == SelectSeq(UserIDOrder, LAMBDA u : u \in S)

principalForCalendarUserAddress(dir, userid) ==
    IF \E p \in dir : userid \in calendarUserAddresses(p)
    THEN CHOOSE p \in dir : userid \in calendarUserAddresses(p)
    ELSE None

validUserIDForShare(dir, userid) ==
    LET principal == principalForCalendarUserAddress(dir, userid)
    IN  IF principal # None THEN principalURL(principal) ELSE None

(***************************************************************************)
(* Invite rows and the INVITE table.                                       *)
(***************************************************************************)
inviteAccessMapFromXML(ace) ==
    IF ace = "ReadAccess" THEN "read-only" ELSE "read-write"

Invite(inviteuid, userid, access, state, summary) ==
    [inviteuid |-> inviteuid, userid |-> userid, access |-> access,
     state |-> state, summary |-> summary]

\* a plain insert, as if the table had no unique columns
addOrUpdateRecordInsert(rows, record) == rows \cup {record}

\* an upsert keyed by the invite uid alone: the row the user id had under
\* another invite uid stays
addOrUpdateRecordByInviteUID(rows, record) ==
    {r \in rows : r.inviteuid # record.inviteuid} \cup {record}

\* insert or replace: rows clashing on either unique column give way
addOrUpdateRecord(rows, record) ==
    {r \in rows : r.userid # record.userid /\ r.inviteuid # record.inviteuid}
        \cup {record}

removeRecordForUserID(rows, userid) == {r \in rows : r.userid # userid}

\* what a lookup that finds no row returns
NoRecord == Invite(None, None, None, None, None)

recordForUserID(rows, userid) ==
    IF \E r \in rows : r.userid = userid
    THEN CHOOSE r \in rows : r.userid = userid
    ELSE NoRecord

recordForInviteUID(rows, inviteUID) ==
    IF \E r \in rows : r.inviteuid = inviteUID
    THEN CHOOSE r \in rows : r.inviteuid = inviteUID
    ELSE NoRecord

\* select * from INVITE order by USERID
allRecords(rows) ==
    LET ids == sorted({r.userid : r \in rows})
    IN  [i \in 1..Len(ids) |-> CHOOSE r \in rows : r.userid = ids[i]]

RECURSIVE validateLoop(_, _, _)
validateLoop(records, rows, dir) ==
    IF records = << >> THEN rows
    ELSE LET record == Head(records)
         IN  IF validUserIDForShare(dir, record.userid) = None
                    /\ record.state # "INVALID"
             THEN validateLoop(Tail(records),
                      addOrUpdateRecord(rows, [record EXCEPT !.state = "INVALID"]),
                      dir)
             ELSE validateLoop(Tail(records), rows, dir)

\* a sweep that also takes a row out of INVALID when its user id resolves
validateInvitesRevive(rows, dir) ==
    {IF validUserIDForShare(dir, r.userid) = None
     THEN [r EXCEPT !.state = "INVALID"]
     ELSE IF r.state = "INVALID" THEN [r EXCEPT !.state = "NEEDS-ACTION"]
     ELSE r : r \in rows}

\* a sweep that deletes the rows whose user id no longer resolves
validateInvitesDelete(rows, dir) ==
    {r \in rows : validUserIDForShare(dir, r.userid) # None}

\* a sweep that rewrites nothing
validateInvitesNothing(rows, dir) == rows

validateInvites(rows, dir) == validateLoop(allRecords(rows), rows, dir)

(***************************************************************************)
(* The collection: resource type, invite database file and cached handle.  *)
(***************************************************************************)
VARIABLES
    resourceType,   \* number of shared-owner children of the resource type
    dbExists,       \* the invites database file is on disk
    INVITE,         \* the rows of the INVITE table
    hasInvitesDB,   \* hasattr(self, "_invitesDB")
    directory,      \* principals the directory currently resolves
    nextUID,        \* the next value uuid4() returns
    op,             \* the operation that produced this state
    request,        \* the request of the last POST
    response,       \* its answer
    okusers,        \* users the last batch counted ok
    badusers,       \* users the last batch counted bad
    log,            \* the steps the last operation went through, in order
    before,         \* the collection as the last POST or store call found it
    arg,            \* what the last direct store call was given
    lookup,         \* the last call on the principal hierarchy and its result
    beforeSweep     \* the INVITE rows the last validation of the invites read

vars == << resourceType, dbExists, INVITE, hasInvitesDB, directory, nextUID,
           op, request, response, okusers, badusers, log, before, arg,
           lookup, beforeSweep >>

Collection == [rtype |-> resourceType, db |-> dbExists, rows |-> INVITE,
               handle |-> hasInvitesDB]

isShared(c) == c.rtype > 0

\* InvitesDatabase.create(): open the database, making file and table if absent
create(c) == [c EXCEPT !.db = TRUE, !.rows = IF c.db THEN c.rows ELSE {}]

\* a remove that closes the database and leaves the file
removeCloseOnly(c) == c

\* InvitesDatabase.remove(): close and delete the file
remove(c) == [c EXCEPT !.db = FALSE, !.rows = {}]

invitesDB(c) == [c EXCEPT !.handle = TRUE]

upgradeToShare(c) == create(invitesDB([c EXCEPT !.rtype = c.rtype + 1]))

\* os.remove raises when there is no file: the handle then stays cached
downgradeFromShare(c) ==
    LET c1 == invitesDB([c EXCEPT !.rtype = 0])
    IN  IF c1.db THEN [remove(c1) EXCEPT !.handle = FALSE] ELSE c1

\* a request that upgrades the collection whether it is shared or not
autoShareAlways(c) == upgradeToShare(c)

autoShare(c) == IF ~isShared(c) THEN upgradeToShare(c) ELSE c

(***************************************************************************)
(* Request bodies: the children of a CS:share document.                    *)
(***************************************************************************)
AccessElements == {"ReadAccess", "ReadWriteAccess"}

\* what a CS:set may carry: (access element, summary)
Payloads == { << "ReadAccess", "lunch" >>, << "ReadWriteAccess", "s" >> }

InviteSet(userid, access, summary) ==
    [kind |-> "set", userid |-> userid, access |-> access, summary |-> summary]
InviteRemove(userid) ==
    [kind |-> "remove", userid |-> userid, access |-> None, summary |-> None]

WellFormedItems ==
    {InviteSet(u, p[1], p[2]) : u \in UserIDs, p \in Payloads}
        \cup {InviteRemove(u) : u \in UserIDs}

MalformedItems ==
    { InviteSet(None, "ReadAccess", "lunch"),
      InviteSet("mailto:alice@example.com", None, "lunch"),
      InviteSet("mailto:alice@example.com", "ReadAccess", None),
      InviteRemove(None) }

Items == WellFormedItems \cup MalformedItems

BodiesUpTo(n) == UNION {[1..k -> Items] : k \in 0..n}

Bodies == BodiesUpTo(MaxBatch)

handleInviteSet(item) ==
    IF item.userid # None /\ item.access # None /\ item.summary # None
    THEN [raised |-> None]
    ELSE IF item.userid = None THEN [raised |-> "missing href"]
    ELSE IF item.access = None THEN [raised |-> "missing access"]
    ELSE [raised |-> "missing summary"]

handleInviteRemove(item) ==
    IF item.userid = None THEN [raised |-> "missing href"] ELSE [raised |-> None]

Put(d, k, v) == [x \in DOMAIN d \cup {k} |-> IF x = k THEN v ELSE d[x]]
Del(d, ks) == [x \in DOMAIN d \ ks |-> d[x]]

\* the first loop of _processInviteDoc: setDict and removeDict, or the error
RECURSIVE parseItems(_, _, _)
parseItems(items, setDict, removeDict) ==
    IF items = << >>
    THEN [raised |-> None, setDict |-> setDict, removeDict |-> removeDict]
    ELSE LET item == Head(items)
         IN  IF item.kind = "set"
             THEN IF handleInviteSet(item).raised # None
                  THEN [raised |-> handleInviteSet(item).raised,
                        setDict |-> setDict, removeDict |-> removeDict]
                  ELSE parseItems(Tail(items),
                           Put(setDict, item.userid,
                               [access |-> item.access, summary |-> item.summary]),
                           removeDict)
             ELSE IF handleInviteRemove(item).raised # None
                  THEN [raised |-> handleInviteRemove(item).raised,
                        setDict |-> setDict, removeDict |-> removeDict]
                  ELSE parseItems(Tail(items), setDict,
                           Put(removeDict, item.userid, item.access))

\* no collapse: a user id both removed and set stays in both dicts
noUseridInRemoveAndSet(setDict, removeDict) == {}

sameUseridInRemoveAndSet(setDict, removeDict) ==
    {u \in DOMAIN removeDict : u \in DOMAIN setDict}

\* the orders in which a dict of the given keys may be iterated
Iterations(keys) ==
    {s \in [1..Cardinality(keys) -> keys] :
        \A i, j \in 1..Cardinality(keys) : s[i] = s[j] => i = j}

(***************************************************************************)
(* Applying the operations of a batch.  st is the state of the running     *)
(* request: the collection c, the uuid counter, okusers/badusers, the log, *)
(* the number n of store mutations attempted so far, the result of the     *)
(* last call and the exception raised, if any.  The store mutation number  *)
(* fault raises a storage error (fault = 0: none does).                    *)
(***************************************************************************)
Event(ev, userid) == [ev |-> ev, userid |-> userid]

StorageError == "StorageError"

uninviteSingleUserFromShare(st, userid, fault) ==
    IF st.n + 1 = fault
    THEN [st EXCEPT !.n = st.n + 1, !.raised = StorageError,
                    !.c = invitesDB(st.c),
                    !.log = Append(st.log, Event(StorageError, userid))]
    ELSE [st EXCEPT !.n = st.n + 1, !.result = TRUE,
                    !.c = [invitesDB(st.c) EXCEPT
                              !.rows = removeRecordForUserID(st.c.rows, userid)],
                    !.log = Append(st.log, Event("removeRecordForUserID", userid))]

\* a removal that validates the user id first, as an addition does
uninviteUserToShareValidated(st, userid, fault) ==
    IF validUserIDForShare(directory, userid) = None
    THEN [st EXCEPT !.result = FALSE]
    ELSE uninviteSingleUserFromShare(st, userid, fault)

uninviteUserToShare(st, userid, fault) ==
    uninviteSingleUserFromShare(st, userid, fault)

\* an addition that keeps the state of the row it replaces
inviteSingleUserToShareKeepState(st, userid, ace, summary, fault) ==
    LET inviteuid == st.uid
        state == IF \E r \in st.c.rows : r.userid = userid
                 THEN recordForUserID(st.c.rows, userid).state
                 ELSE "NEEDS-ACTION"
    IN  IF st.n + 1 = fault
        THEN [st EXCEPT !.n = st.n + 1, !.uid = st.uid + 1,
                        !.raised = StorageError, !.c = invitesDB(st.c),
                        !.log = Append(st.log, Event(StorageError, userid))]
        ELSE [st EXCEPT !.n = st.n + 1, !.uid = st.uid + 1, !.result = TRUE,
                        !.c = [invitesDB(st.c) EXCEPT
                                  !.rows = addOrUpdateRecord(st.c.rows,
                                      Invite(inviteuid, userid,
                                             inviteAccessMapFromXML(ace),
                                             state, summary))],
                        !.log = Append(st.log, Event("addOrUpdateRecord", userid))]

\* an addition that keeps the invite uid of the row it replaces
inviteSingleUserToShareKeepUID(st, userid, ace, summary, fault) ==
    LET inviteuid == IF \E r \in st.c.rows : r.userid = userid
                     THEN recordForUserID(st.c.rows, userid).inviteuid
                     ELSE st.uid
    IN  IF st.n + 1 = fault
        THEN [st EXCEPT !.n = st.n + 1, !.uid = st.uid + 1,
                        !.raised = StorageError, !.c = invitesDB(st.c),
                        !.log = Append(st.log, Event(StorageError, userid))]
        ELSE [st EXCEPT !.n = st.n + 1, !.uid = st.uid + 1, !.result = TRUE,
                        !.c = [invitesDB(st.c) EXCEPT
                                  !.rows = addOrUpdateRecord(st.c.rows,
                                      Invite(inviteuid, userid,
                                             inviteAccessMapFromXML(ace),
                                             "NEEDS-ACTION", summary))],
                        !.log = Append(st.log, Event("addOrUpdateRecord", userid))]

inviteSingleUserToShare(st, userid, ace, summary, fault) ==
    LET inviteuid == st.uid
    IN  IF st.n + 1 = fault
        THEN [st EXCEPT !.n = st.n + 1, !.uid = st.uid + 1,
                        !.raised = StorageError, !.c = invitesDB(st.c),
                        !.log = Append(st.log, Event(StorageError, userid))]
        ELSE [st EXCEPT !.n = st.n + 1, !.uid = st.uid + 1, !.result = TRUE,
                        !.c = [invitesDB(st.c) EXCEPT
                                  !.rows = addOrUpdateRecord(st.c.rows,
                                      Invite(inviteuid, userid,
                                             inviteAccessMapFromXML(ace),
                                             "NEEDS-ACTION", summary))],
                        !.log = Append(st.log, Event("addOrUpdateRecord", userid))]

inviteSingleUserUpdateToShare(st, userid, aceOLD, aceNEW, summary, fault) ==
    inviteSingleUserToShare(st, userid, aceNEW, summary, fault)

\* an addition that stores the row under the user id as the request gave it
inviteUserToShareRaw(st, dir, userid, ace, summary, fault) ==
    LET valid == validUserIDForShare(dir, userid)
    IN  IF valid = None THEN [st EXCEPT !.result = FALSE]
        ELSE inviteSingleUserToShare(st, userid, ace, summary, fault)

\* an addition that falls back on the raw user id (the external users branch)
inviteUserToShareExternal(st, dir, userid, ace, summary, fault) ==
    LET valid == validUserIDForShare(dir, userid)
    IN  inviteSingleUserToShare(st, IF valid = None THEN userid ELSE valid,
                                ace, summary, fault)

inviteUserToShare(st, dir, userid, ace, summary, fault) ==
    LET valid == validUserIDForShare(dir, userid)
    IN  IF valid = None THEN [st EXCEPT !.result = FALSE]
        ELSE inviteSingleUserToShare(st, valid, ace, summary, fault)

inviteUserUpdateToShare(st, dir, userid, aceOLD, aceNEW, summary, fault) ==
    LET valid == validUserIDForShare(dir, userid)
    IN  IF valid = None THEN [st EXCEPT !.result = FALSE]
        ELSE inviteSingleUserUpdateToShare(st, valid, aceOLD, aceNEW, summary, fault)

\* a count that reports a user under the principal URL its id stands for
CountByPrincipal(st, userid) ==
    LET url == principalURL(CHOOSE p \in Principals : userid \in calendarUserAddresses(p))
    IN  IF st.raised # None THEN st
        ELSE IF st.result THEN [st EXCEPT !.ok = st.ok \cup {url}]
        ELSE [st EXCEPT !.bad = st.bad \cup {url}]

\* a count that also puts the bad users among the ok ones
CountAlwaysOk(st, userid) ==
    IF st.raised # None THEN st
    ELSE IF st.result THEN [st EXCEPT !.ok = st.ok \cup {userid}]
    ELSE [st EXCEPT !.ok = st.ok \cup {userid}, !.bad = st.bad \cup {userid}]

\* (okusers if result else badusers).add(userid)
Count(st, userid) ==
    IF st.raised # None THEN st
    ELSE IF st.result THEN [st EXCEPT !.ok = st.ok \cup {userid}]
    ELSE [st EXCEPT !.bad = st.bad \cup {userid}]

RECURSIVE removeLoop(_, _, _, _)
removeLoop(order, removeDict, st, fault) ==
    IF order = << >> \/ st.raised # None THEN st
    ELSE LET userid == Head(order)
             st1 == [st EXCEPT !.log = Append(st.log, Event("uninvite", userid))]
         IN  removeLoop(Tail(order), removeDict,
                        Count(uninviteUserToShare(st1, userid, fault), userid),
                        fault)

RECURSIVE setLoop(_, _, _, _, _)
setLoop(order, setDict, st, dir, fault) ==
    IF order = << >> \/ st.raised # None THEN st
    ELSE LET userid == Head(order)
             st1 == [st EXCEPT !.log = Append(st.log, Event("invite", userid))]
         IN  setLoop(Tail(order), setDict,
                     Count(inviteUserToShare(st1, dir, userid,
                               setDict[userid].access, setDict[userid].summary,
                               fault), userid),
                     dir, fault)

RECURSIVE updateLoop(_, _, _, _, _)
updateLoop(order, updateinviteDict, st, dir, fault) ==
    IF order = << >> \/ st.raised # None THEN st
    ELSE LET userid == Head(order)
             st1 == [st EXCEPT !.log = Append(st.log, Event("update", userid))]
         IN  updateLoop(Tail(order), updateinviteDict,
                        Count(inviteUserUpdateToShare(st1, dir, userid,
                                  updateinviteDict[userid].removeACL,
                                  updateinviteDict[userid].newACL,
                                  updateinviteDict[userid].summary, fault), userid),
                        dir, fault)

\* a multistatus body of all the users in one sorted run
xmlResponsesMerged(ok, bad) ==
    [i \in 1..Len(sorted(ok \cup bad)) |->
        << sorted(ok \cup bad)[i],
           IF sorted(ok \cup bad)[i] \in bad THEN "FORBIDDEN" ELSE "OK" >>]

\* a multistatus body that gives every user the success code
xmlResponsesAllOK(ok, bad) ==
    [i \in 1..Len(sorted(ok)) |-> << sorted(ok)[i], "OK" >>]
        \o [i \in 1..Len(sorted(bad)) |-> << sorted(bad)[i], "OK" >>]

\* the multistatus body: ok users then bad users, each group sorted
xmlResponses(ok, bad) ==
    [i \in 1..Len(sorted(ok)) |-> << sorted(ok)[i], "OK" >>]
        \o [i \in 1..Len(sorted(bad)) |-> << sorted(bad)[i], "FORBIDDEN" >>]

Answer(code, body) == [code |-> code, body |-> body]

\* a _processInviteDoc that applies the sets before the removals
processInviteDocSetsFirst(st, dir, setDict0, removeDict0, iter, fault) ==
    LET same == sameUseridInRemoveAndSet(setDict0, removeDict0)
        updateinviteDict ==
            [u \in same |-> [removeACL |-> removeDict0[u],
                             newACL |-> setDict0[u].access,
                             summary |-> setDict0[u].summary]]
        removeDict == Del(removeDict0, same)
        setDict == Del(setDict0, same)
        st1 == setLoop(iter.set, setDict, st, dir, fault)
        st2 == removeLoop(iter.remove, removeDict, st1, fault)
        st3 == updateLoop(iter.update, updateinviteDict, st2, dir, fault)
    IN  IF st3.raised # None
        THEN [st3 EXCEPT !.response = Answer("BAD_REQUEST", << >>)]
        ELSE [st3 EXCEPT
                 !.swept = st3.c.rows,
                 !.c = [invitesDB(st3.c) EXCEPT
                           !.rows = validateInvites(st3.c.rows, dir)],
                 !.log = Append(st3.log, Event("validateInvites", None)),
                 !.response = IF st3.bad # {}
                              THEN Answer("MULTI_STATUS", xmlResponses(st3.ok, st3.bad))
                              ELSE Answer("OK", << >>)]

\* _processInviteDoc after a successful parse: iter gives the iteration
\* orders of the three dicts
processInviteDoc(st, dir, setDict0, removeDict0, iter, fault) ==
    LET same == sameUseridInRemoveAndSet(setDict0, removeDict0)
        updateinviteDict ==
            [u \in same |-> [removeACL |-> removeDict0[u],
                             newACL |-> setDict0[u].access,
                             summary |-> setDict0[u].summary]]
        removeDict == Del(removeDict0, same)
        setDict == Del(setDict0, same)
        st1 == removeLoop(iter.remove, removeDict, st, fault)
        st2 == setLoop(iter.set, setDict, st1, dir, fault)
        st3 == updateLoop(iter.update, updateinviteDict, st2, dir, fault)
    IN  IF st3.raised # None
        THEN [st3 EXCEPT !.response = Answer("BAD_REQUEST", << >>)]
        ELSE [st3 EXCEPT
                 !.swept = st3.c.rows,
                 !.c = [invitesDB(st3.c) EXCEPT
                           !.rows = validateInvites(st3.c.rows, dir)],
                 !.log = Append(st3.log, Event("validateInvites", None)),
                 !.response = IF st3.bad # {}
                              THEN Answer("MULTI_STATUS", xmlResponses(st3.ok, st3.bad))
                              ELSE Answer("OK", << >>)]

\* _handleInvite: share the collection if need be, then process the document
handleInvite(st, dir, body, iter, fault) ==
    LET c1 == autoShare(st.c)
        st1 == [st EXCEPT !.c = c1,
                          !.log = IF c1 # st.c
                                  THEN Append(st.log, Event("upgradeToShare", None))
                                  ELSE st.log]
        parsed == parseItems(body, << >>, << >>)
        st2 == [st1 EXCEPT !.log = Append(st1.log, Event("parse", None))]
    IN  IF parsed.raised # None
        THEN [st2 EXCEPT !.raised = parsed.raised,
                         !.response = Answer("FORBIDDEN", << >>)]
        ELSE processInviteDoc(st2, dir, parsed.setDict, parsed.removeDict,
                              iter, fault)

xmlPOSTPreconditions(req) == req.contentType \in {"application/xml", "text/xml"}

\* the handler without the privilege check (xmlPOSTNoAuth called directly)
xmlPOSTAuthUnchecked(st, dir, req, iter, fault) ==
    IF ~xmlPOSTPreconditions(req)
    THEN [st EXCEPT !.raised = "valid-request-content-type",
                    !.response = Answer("FORBIDDEN", << >>)]
    ELSE handleInvite(st, dir, req.body, iter, fault)

xmlPOSTAuth(st, dir, req, iter, fault) ==
    LET st1 == [st EXCEPT !.log = Append(st.log, Event("authorize", None))]
    IN  IF ~req.authorized
        THEN [st1 EXCEPT !.raised = "AccessDenied",
                         !.response = Answer("UNAUTHORIZED", << >>)]
        ELSE IF ~xmlPOSTPreconditions(req)
        THEN [st1 EXCEPT !.raised = "valid-request-content-type",
                         !.response = Answer("FORBIDDEN", << >>)]
        ELSE handleInvite(st1, dir, req.body, iter, fault)

(***************************************************************************)
(* The state machine.                                                      *)
(***************************************************************************)
ContentTypes == {"text/xml", "text/calendar"}

\* requests that pass authorization and the content type check carry every
\* body; the others, which never reach the body, carry the short ones
Requests ==
    [authorized : {TRUE}, contentType : {"text/xml"}, body : Bodies]
        \cup [authorized : BOOLEAN, contentType : ContentTypes,
              body : BodiesUpTo(1)]

NoLookup ==
    [call |-> None, resource |-> None, name |-> None, principal |-> None,
     privilege |-> None, result |-> None]

NoRequest == [authorized |-> FALSE, contentType |-> None, body |-> << >>]
NoAnswer == Answer(None, << >>)
NoCollection == [rtype |-> 0, db |-> FALSE, rows |-> {}, handle |-> FALSE]

Init ==
    /\ resourceType = 0
    /\ dbExists = FALSE
    /\ INVITE = {}
    /\ hasInvitesDB = FALSE
    /\ directory \in SUBSET Principals
    /\ nextUID = 1
    /\ op = "init"
    /\ request = NoRequest
    /\ response = NoAnswer
    /\ okusers = {}
    /\ badusers = {}
    /\ log = << >>
    /\ before = NoCollection
    /\ arg = None
    /\ lookup = NoLookup
    /\ beforeSweep = {}

SetCollection(c) ==
    /\ resourceType' = c.rtype
    /\ dbExists' = c.db
    /\ INVITE' = c.rows
    /\ hasInvitesDB' = c.handle

NoBatch(name) ==
    /\ op' = name
    /\ request' = NoRequest
    /\ response' = NoAnswer
    /\ okusers' = {}
    /\ badusers' = {}
    /\ log' = << >>
    /\ before' = NoCollection
    /\ arg' = None
    /\ lookup' = NoLookup
    /\ beforeSweep' = {}

Start ==
    [c |-> Collection, uid |-> nextUID, ok |-> {}, bad |-> {}, log |-> << >>,
     n |-> 0, result |-> TRUE, raised |-> None, response |-> NoAnswer,
     swept |-> {}]

\* the store mutations a request reaches: none when it is turned away first
Mutations(req) ==
    LET parsed == parseItems(req.body, << >>, << >>)
    IN  IF req.authorized /\ xmlPOSTPreconditions(req) /\ parsed.raised = None
        THEN Cardinality(DOMAIN parsed.setDict \cup DOMAIN parsed.removeDict)
        ELSE 0

\* the handler serves the request req; name tells how the request came in
Serve(req, name) ==
    LET parsed == parseItems(req.body, << >>, << >>)
        same == sameUseridInRemoveAndSet(parsed.setDict, parsed.removeDict)
    IN  \E fault \in 0..Mutations(req),
           ro \in Iterations(DOMAIN parsed.removeDict \ same),
           so \in Iterations(DOMAIN parsed.setDict \ same),
           uo \in Iterations(same) :
            \E out \in {xmlPOSTAuth(Start, directory, req,
                           [remove |-> ro, set |-> so, update |-> uo], fault)} :
                /\ out.uid <= MaxUID + 1
                /\ SetCollection(out.c)
                /\ nextUID' = out.uid
                /\ op' = name
                /\ request' = req
                /\ response' = out.response
                /\ okusers' = out.ok
                /\ badusers' = out.bad
                /\ log' = out.log
                /\ before' = Collection
                /\ arg' = None
                /\ lookup' = NoLookup
                /\ beforeSweep' = out.swept
                /\ UNCHANGED directory

\* a POST of a sharing document, one of reqs, to the collection
POSTof(reqs) ==
    /\ op # "POST"
    /\ \E req \in reqs : Serve(req, "POST")

POST == POSTof(Requests)

UpgradeToShare ==
    /\ resourceType < MaxMarkers
    /\ SetCollection(upgradeToShare(Collection))
    /\ NoBatch("upgradeToShare")
    /\ UNCHANGED << directory, nextUID >>

DowngradeFromShare ==
    /\ SetCollection(downgradeFromShare(Collection))
    /\ NoBatch("downgradeFromShare")
    /\ UNCHANGED << directory, nextUID >>

\* reading the CS:invite property of a shared collection validates the invites
InviteProperty ==
    /\ isShared(Collection)
    /\ SetCollection([invitesDB(Collection) EXCEPT
                         !.rows = validateInvites(INVITE, directory)])
    /\ op' = "inviteProperty"
    /\ request' = NoRequest
    /\ response' = NoAnswer
    /\ okusers' = {}
    /\ badusers' = {}
    /\ log' = << >>
    /\ before' = NoCollection
    /\ arg' = None
    /\ lookup' = NoLookup
    /\ beforeSweep' = INVITE
    /\ UNCHANGED << directory, nextUID >>

\* the answer is sent and the request is over
Respond ==
    /\ op = "POST"
    /\ NoBatch("respond")
    /\ UNCHANGED << resourceType, dbExists, INVITE, hasInvitesDB, directory,
                    nextUID >>

\* the directory gains or loses a principal
DirectoryChange ==
    \E p \in Principals :
        /\ directory' = IF p \in directory THEN directory \ {p}
                        ELSE directory \cup {p}
        /\ NoBatch("directoryChange")
        /\ UNCHANGED << resourceType, dbExists, INVITE, hasInvitesDB, nextUID >>

Next ==
    \/ POST
    \/ UpgradeToShare
    \/ DowngradeFromShare
    \/ InviteProperty
    \/ Respond
    \/ DirectoryChange

Spec == Init /\ [][Next]_vars

(***************************************************************************)
(* The same collection under requests that remove and set the same user    *)
(* id: bodies of up to MaxPairs pairs << CS:set u, CS:remove u >>.         *)
(***************************************************************************)
Pairs ==
    {<< InviteSet(u, p[1], p[2]), InviteRemove(u) >> : u \in UserIDs, p \in Payloads}

RECURSIVE Concat(_)
Concat(ss) == IF ss = << >> THEN << >> ELSE Head(ss) \o Concat(Tail(ss))

PairBodies == {Concat(ps) : ps \in UNION {[1..k -> Pairs] : k \in 0..MaxPairs}}

PairRequests ==
    [authorized : {TRUE}, contentType : {"text/xml"}, body : PairBodies]

PairPOST == POSTof(PairRequests)

NextPairs ==
    \/ PairPOST
    \/ UpgradeToShare
    \/ DowngradeFromShare
    \/ InviteProperty
    \/ Respond
    \/ DirectoryChange

SpecPairs == Init /\ [][NextPairs]_vars

(***************************************************************************)
(* The same collection under single-operation requests that the client     *)
(* may send again as they were: Replay serves the request of the last POST *)
(* a second time, before anything else happens.                            *)
(***************************************************************************)
ReplayRequests ==
    [authorized : {TRUE}, contentType : {"text/xml"}, body : BodiesUpTo(1)]

ReplayPOST == POSTof(ReplayRequests)

Replay ==
    /\ op = "POST"
    /\ Serve(request, "replay")

NextReplay ==
    \/ ReplayPOST
    \/ Replay
    \/ UpgradeToShare
    \/ DowngradeFromShare
    \/ InviteProperty
    \/ Respond
    \/ DirectoryChange

SpecReplay == Init /\ [][NextReplay]_vars

(***************************************************************************)
(* The invite store under direct calls: addOrUpdateRecord with any record  *)
(* and removeUserFromInvite with any user id, on a collection whose        *)
(* database exists.  Return ends the call.                                 *)
(***************************************************************************)
\* the states a stored record is given here, of inviteStatusMapToXML
States == {"NEEDS-ACTION", "ACCEPTED"}

Records ==
    {Invite(i, u, inviteAccessMapFromXML(p[1]), state, p[2]) :
        i \in 1..MaxUID, u \in UserIDs, p \in Payloads, state \in States}

StoreCalls == {"addOrUpdateRecord", "removeUserFromInvite"}

StoreCall(name, rows, given) ==
    /\ dbExists
    /\ op \notin StoreCalls
    /\ SetCollection([invitesDB(Collection) EXCEPT !.rows = rows])
    /\ op' = name
    /\ arg' = given
    /\ lookup' = NoLookup
    /\ before' = Collection
    /\ request' = NoRequest
    /\ response' = NoAnswer
    /\ okusers' = {}
    /\ badusers' = {}
    /\ log' = << >>
    /\ beforeSweep' = {}
    /\ UNCHANGED << directory, nextUID >>

AddOrUpdateRecord ==
    \E record \in Records :
        StoreCall("addOrUpdateRecord", addOrUpdateRecord(INVITE, record), record)

RemoveUserFromInvite ==
    \E userid \in UserIDs :
        StoreCall("removeUserFromInvite", removeRecordForUserID(INVITE, userid),
                  userid)

Return ==
    /\ op \in StoreCalls
    /\ NoBatch("return")
    /\ UNCHANGED << resourceType, dbExists, INVITE, hasInvitesDB, directory,
                    nextUID >>

InitStore == Init /\ directory = Principals

NextStore ==
    \/ AddOrUpdateRecord
    \/ RemoveUserFromInvite
    \/ Return
    \/ UpgradeToShare
    \/ DowngradeFromShare

SpecStore == InitStore /\ [][NextStore]_vars

(***************************************************************************)
(* The same collection under requests that name every user id at most      *)
(* once, so that a report may list as many users as there are user ids.    *)
(***************************************************************************)
Choices == [UserIDs -> {"set", "remove", "none"}]

ItemOf(userid, kind) ==
    IF kind = "set" THEN InviteSet(userid, "ReadAccess", "lunch")
    ELSE InviteRemove(userid)

DistinctBody(f) ==
    LET ids == sorted({u \in UserIDs : f[u] # "none"})
    IN  [i \in 1..Len(ids) |-> ItemOf(ids[i], f[ids[i]])]

DistinctBodies == {DistinctBody(f) : f \in Choices}

ReportRequests ==
    [authorized : {TRUE}, contentType : {"text/xml"}, body : DistinctBodies]

ReportPOST == POSTof(ReportRequests)

NextReport ==
    \/ ReportPOST
    \/ UpgradeToShare
    \/ DowngradeFromShare
    \/ InviteProperty
    \/ Respond
    \/ DirectoryChange

SpecReport == Init /\ [][NextReport]_vars

(***************************************************************************)
(* The same collection under requests that remove, set or remove and set   *)
(* each user id, so that one batch may go through all its three phases.    *)
(***************************************************************************)
\* what a request does with each user id; it leaves one out at least
PhaseChoices ==
    {f \in [UserIDs -> {"set", "remove", "update", "none"}] :
        \E u \in UserIDs : f[u] = "none"}

ItemsOf(userid, kind) ==
    IF kind = "update"
    THEN << InviteRemove(userid), InviteSet(userid, "ReadWriteAccess", "s") >>
    ELSE << ItemOf(userid, kind) >>

PhaseBody(f) ==
    LET ids == sorted({u \in UserIDs : f[u] # "none"})
    IN  Concat([i \in 1..Len(ids) |-> ItemsOf(ids[i], f[ids[i]])])

PhaseBodies == {PhaseBody(f) : f \in PhaseChoices}

PhaseRequests ==
    [authorized : {TRUE}, contentType : {"text/xml"}, body : PhaseBodies]

PhasePOST == POSTof(PhaseRequests)

NextPhases ==
    \/ PhasePOST
    \/ DowngradeFromShare
    \/ Respond
    \/ DirectoryChange

SpecPhases == Init /\ [][NextPhases]_vars

(***************************************************************************)
(* The principal hierarchy of one directory service: the provisioning      *)
(* root, a bucket per record type and a principal per record, with the     *)
(* default access control list of each and the privilege check on it.      *)
(***************************************************************************)
provisioningURL == "/principals/"

recordTypes == {"users", "groups"}

Groups == {"staff"}

Record(recordType, shortName) ==
    [recordType |-> recordType, shortName |-> shortName]

\* directory.listRecords(recordType): the users are the principals the
\* directory resolves at the time
listRecords(dir, recordType) ==
    IF recordType = "users" THEN {Record("users", p) : p \in dir}
    ELSE {Record("groups", g) : g \in Groups}

Resource(kind, recordType, shortName) ==
    [kind |-> kind, recordType |-> recordType, shortName |-> shortName]

\* what getChild gives for a name that has no child
NoResource == Resource(None, None, None)

provisioningResource == Resource("root", None, None)
typeResource(recordType) == Resource("type", recordType, None)
recordResource(record) ==
    Resource("principal", record.recordType, record.shortName)

\* a bucket that names itself without the trailing slash
typeURLNoSlash(recordType) == provisioningURL \o recordType

typeURL(recordType) == provisioningURL \o recordType \o "/"

recordURL(resource) == typeURL(resource.recordType) \o resource.shortName

\* every collection answering with the url of the provisioning root
principalCollectionURLRoot(resource) == provisioningURL

principalCollectionURL(resource) ==
    IF resource.kind = "root" THEN provisioningURL
    ELSE typeURL(resource.recordType)

principalCollections(resource) == {provisioningResource}

\* a bucket that lists every short name it ever knew
listChildrenStale(dir, resource) ==
    IF resource.kind = "root" THEN recordTypes
    ELSE {r.shortName : r \in listRecords(Principals, resource.recordType)}

listChildren(dir, resource) ==
    IF resource.kind = "root" THEN recordTypes
    ELSE {r.shortName : r \in listRecords(dir, resource.recordType)}

getChild(dir, resource, name) ==
    IF name \notin listChildren(dir, resource) THEN NoResource
    ELSE IF resource.kind = "root" THEN typeResource(name)
    ELSE recordResource(Record(resource.recordType, name))

principalForRecord(dir, record) ==
    getChild(dir, getChild(dir, provisioningResource, record.recordType),
             record.shortName)

\* the resources the hierarchy holds for a directory
Resources(dir) ==
    {provisioningResource} \cup {typeResource(t) : t \in recordTypes}
        \cup {recordResource(r) : r \in UNION {listRecords(dir, t) : t \in recordTypes}}

ACE(principal, privileges, grant) ==
    [principal |-> principal, privileges |-> privileges, grant |-> grant]

\* a default list that lets everybody read
defaultAccessControlListAll(resource) == << ACE("All", {"Read"}, TRUE) >>

defaultAccessControlList(resource) == << ACE("Authenticated", {"Read"}, TRUE) >>

\* own entries first, then those of the ancestors
accessControlList(resource) ==
    IF resource.kind = "root" THEN defaultAccessControlList(resource)
    ELSE IF resource.kind = "type"
    THEN defaultAccessControlList(resource)
            \o defaultAccessControlList(provisioningResource)
    ELSE defaultAccessControlList(resource)
            \o defaultAccessControlList(typeResource(resource.recordType))
            \o defaultAccessControlList(provisioningResource)

RequestPrincipals == {"All", "Unauthenticated", "Authenticated"}

Privileges == {"Read", "Write"}

matchPrincipal(requesting, matcher) ==
    \/ requesting = matcher
    \/ matcher = "All"
    \/ matcher = "Authenticated" /\ requesting \notin {"All", "Unauthenticated"}
    \/ matcher = "Unauthenticated" /\ requesting = "Unauthenticated"

\* the first entry that matches the principal and holds the privilege decides
RECURSIVE checkPrivileges(_, _, _)
checkPrivileges(acl, principal, privilege) ==
    IF acl = << >> THEN "Denied"
    ELSE IF matchPrincipal(principal, Head(acl).principal)
             /\ privilege \in Head(acl).privileges
         THEN IF Head(acl).grant THEN "Allowed" ELSE "Denied"
         ELSE checkPrivileges(Tail(acl), principal, privilege)

\* the table of the default access: (principal, privilege, allowed)
authReadOnlyPrivileges ==
    { << "All", "Read", FALSE >>,
      << "All", "Write", FALSE >>,
      << "Unauthenticated", "Read", FALSE >>,
      << "Unauthenticated", "Write", FALSE >>,
      << "Authenticated", "Read", TRUE >>,
      << "Authenticated", "Write", FALSE >> }

\* the names a child may be asked for
ChildNames == recordTypes \cup Principals \cup Groups \cup {"nobody"}

Call(call, resource, name, principal, privilege, result) ==
    /\ lookup' = [call |-> call, resource |-> resource, name |-> name,
                  principal |-> principal, privilege |-> privilege,
                  result |-> result]
    /\ op' = call
    /\ UNCHANGED << resourceType, dbExists, INVITE, hasInvitesDB, directory,
                    nextUID, request, response, okusers, badusers, log,
                    before, arg, beforeSweep >>

ListChildren ==
    \E resource \in Resources(directory) :
        /\ resource.kind # "principal"
        /\ Call("listChildren", resource, None, None, None,
                listChildren(directory, resource))

GetChild ==
    \E resource \in Resources(directory), name \in ChildNames :
        /\ resource.kind # "principal"
        /\ Call("getChild", resource, name, None, None,
                getChild(directory, resource, name))

PrincipalForRecord ==
    \E t \in recordTypes :
        \E record \in listRecords(directory, t) :
            Call("principalForRecord", provisioningResource, record, None, None,
                 principalForRecord(directory, record))

PrincipalCollectionURL ==
    \E resource \in Resources(directory) :
        /\ resource.kind # "principal"
        /\ Call("principalCollectionURL", resource, None, None, None,
                principalCollectionURL(resource))

PrincipalCollections ==
    \E resource \in Resources(directory) :
        Call("principalCollections", resource, None, None, None,
             {principalCollectionURL(pc) : pc \in principalCollections(resource)})

PrincipalURL ==
    \E resource \in Resources(directory) :
        /\ resource.kind = "principal"
        /\ Call("principalURL", resource, None, None, None, recordURL(resource))

CheckPrivileges ==
    \E resource \in Resources(directory), principal \in RequestPrincipals,
       privilege \in Privileges :
        Call("checkPrivileges", resource, None, principal, privilege,
             checkPrivileges(accessControlList(resource), principal, privilege))

NextPrincipals ==
    \/ ListChildren
    \/ GetChild
    \/ PrincipalForRecord
    \/ PrincipalCollectionURL
    \/ PrincipalCollections
    \/ PrincipalURL
    \/ CheckPrivileges
    \/ DirectoryChange

SpecPrincipals == Init /\ [][NextPrincipals]_vars

(***************************************************************************)
(* Vocabulary of the properties.                                           *)
(***************************************************************************)
Parsed(req) == parseItems(req.body, << >>, << >>)

\* the request got past authorization, content type and parsing
Accepted(req) ==
    req.authorized /\ xmlPOSTPreconditions(req) /\ Parsed(req).raised = None

\* the last POST ran its batch to the end and answered with the report
Completed == op = "POST" /\ response.code \in {"OK", "MULTI_STATUS"}

SetUsers(req) == DOMAIN Parsed(req).setDict
RemoveUsers(req) == DOMAIN Parsed(req).removeDict
UpdateUsers(req) == SetUsers(req) \cap RemoveUsers(req)
BatchUsers(req) == SetUsers(req) \cup RemoveUsers(req)

Resolves(userid) == validUserIDForShare(directory, userid) # None

\* the log shows a store write right after the step ev of user userid
WroteFor(ev, userid) ==
    \E i \in 1..Len(log) - 1 :
        /\ log[i] = Event(ev, userid)
        /\ log[i + 1].ev \in {"addOrUpdateRecord", "removeRecordForUserID"}

Logged(ev) == \E i \in 1..Len(log) : log[i].ev = ev

(***************************************************************************)
(* C1: in every reachable state of the collection's invite store at most   *)
(* one row exists for any given userID.                                    *)
(***************************************************************************)
C1_OneRowPerUserID ==
    \A r1, r2 \in INVITE : r1.userid = r2.userid => r1 = r2

\* a batch wrote the row of one principal twice, under two raw ids
C1_Witness ==
    /\ Completed
    /\ {"mailto:alice@example.com", "/principals/users/alice"} \subseteq okusers
    /\ WroteFor("invite", "mailto:alice@example.com")
    /\ WroteFor("invite", "/principals/users/alice")
    /\ Cardinality(INVITE) = 1

(***************************************************************************)
(* C2: when a user id is both set and removed in one batch it is taken out *)
(* of both maps and processed as a single update: no removal is executed   *)
(* for it, and if the id resolves the user is in okusers and the store     *)
(* ends with exactly one row for that user.  The row carries the new       *)
(* access and summary of the update applied last among the updates of the  *)
(* batch that resolve to that principal: the user's own, unless another    *)
(* update names the same principal by another raw id and is applied later. *)
(***************************************************************************)
RowsOf(userid) == {r \in INVITE : r.userid = userid}

Carries(r, v) ==
    /\ r.access = inviteAccessMapFromXML(Parsed(request).setDict[v].access)
    /\ r.summary = Parsed(request).setDict[v].summary

SingleUpdate(u) ==
    /\ Cardinality({i \in 1..Len(log) : log[i] = Event("update", u)}) = 1
    /\ \A i \in 1..Len(log) :
          /\ log[i] # Event("uninvite", u)
          /\ log[i] # Event("invite", u)
          /\ log[i].ev # "removeRecordForUserID"
                \/ log[i].userid \notin {u, validUserIDForShare(directory, u)}

\* the user id of the update applied last to the principal url
LastUpdateOf(url) ==
    LET at == {i \in 1..Len(log) :
                  /\ log[i].ev = "update"
                  /\ validUserIDForShare(directory, log[i].userid) = url}
    IN  log[CHOOSE i \in at : \A j \in at : j <= i].userid

C2_CollapseToUpdate ==
    Completed =>
        \A u \in UpdateUsers(request) :
            /\ SingleUpdate(u)
            /\ Resolves(u) =>
                  /\ u \in okusers
                  /\ \E r \in INVITE :
                        /\ RowsOf(validUserIDForShare(directory, u)) = {r}
                        /\ Carries(r, LastUpdateOf(validUserIDForShare(directory, u)))

\* the claim as it stands: the row carries the update's own access and summary
C2_CollapseCarriesOwn ==
    Completed =>
        \A u \in UpdateUsers(request) :
            /\ SingleUpdate(u)
            /\ Resolves(u) =>
                  /\ u \in okusers
                  /\ \E r \in INVITE :
                        /\ RowsOf(validUserIDForShare(directory, u)) = {r}
                        /\ Carries(r, u)

\* a user with a row is removed and set in one batch and ends with one row
\* that carries the new access and summary
C2_Witness ==
    /\ Completed
    /\ \E u \in UpdateUsers(request) :
          /\ Resolves(u)
          /\ u \in okusers
          /\ RowsOf(validUserIDForShare(directory, u)) # {}
          /\ \E old \in before.rows :
                /\ old.userid = validUserIDForShare(directory, u)
                /\ ~Carries(old, u)
          /\ \A r \in INVITE : Carries(r, u)

(***************************************************************************)
(* C3: in a batch that completes, a set or update operation whose user id  *)
(* does not resolve to a principal puts that user in badusers, writes      *)
(* nothing to the store for it and creates no row, and every other user of *)
(* the batch is still processed and reported.                              *)
(***************************************************************************)
C3_UnresolvedSetIsBad ==
    Completed =>
        \A u \in SetUsers(request) :
            ~Resolves(u) =>
                /\ u \in badusers /\ u \notin okusers
                /\ ~WroteFor("invite", u) /\ ~WroteFor("update", u)
                /\ \A r \in beforeSweep :
                        \/ r \in before.rows
                        \/ \E v \in SetUsers(request) :
                              /\ Resolves(v)
                              /\ r.userid = validUserIDForShare(directory, v)
                /\ BatchUsers(request) \subseteq okusers \cup badusers

\* an unresolvable set was counted bad next to a set that wrote its row
C3_Witness ==
    /\ Completed
    /\ \E u \in SetUsers(request) : ~Resolves(u) /\ u \in badusers
    /\ \E v \in SetUsers(request) : v \in okusers /\ WroteFor("invite", v)
    /\ Cardinality(INVITE) = 1

(***************************************************************************)
(* C4: in a batch that completes, a remove operation for a user id that is *)
(* not also set is counted ok without being validated, whether or not the  *)
(* id resolves and whether or not it has a row; a batch of removals deletes*)
(* exactly the rows stored under the ids it names, so removing a user      *)
(* with no row leaves the store as it was.                                 *)
(***************************************************************************)
C4_RemoveNeverValidated ==
    Completed =>
        LET pure == RemoveUsers(request) \ SetUsers(request)
        IN  /\ pure \subseteq okusers
            /\ pure \cap badusers = {}
            /\ SetUsers(request) = {} =>
                  beforeSweep = {r \in before.rows : r.userid \notin pure}

\* a removal of an id that neither resolves nor has a row, counted ok, with
\* the rows of the store as they were
C4_Witness ==
    /\ Completed
    /\ SetUsers(request) = {}
    /\ \E u \in RemoveUsers(request) :
          /\ ~Resolves(u)
          /\ \A r \in before.rows : r.userid # u
          /\ u \in okusers
          /\ WroteFor("uninvite", u)
    /\ before.rows # {}
    /\ beforeSweep = before.rows

(***************************************************************************)
(* C5: after a batch that completes, every stored invite whose user id     *)
(* does not resolve has state INVALID, and every invite that resolves and  *)
(* was not INVALID before the final sweep is unchanged by the sweep.       *)
(***************************************************************************)
C5_SweepAfterBatch ==
    Completed =>
        /\ \A r \in INVITE : ~Resolves(r.userid) => r.state = "INVALID"
        /\ \A r \in beforeSweep :
              (Resolves(r.userid) /\ r.state # "INVALID") => r \in INVITE

\* the sweep of a batch turned one row INVALID and kept another as it was
C5_Witness ==
    /\ Completed
    /\ \E r \in INVITE :
          ~Resolves(r.userid) /\ r.state = "INVALID" /\ r \notin beforeSweep
    /\ \E r \in INVITE :
          Resolves(r.userid) /\ r.state = "NEEDS-ACTION" /\ r \in beforeSweep

(***************************************************************************)
(* C6: for every batch that completes, okusers and badusers are disjoint   *)
(* and their union is exactly the set of user ids the batch's set and      *)
(* remove operations name.                                                 *)
(***************************************************************************)
C6_OkBadPartition ==
    Completed =>
        /\ okusers \cap badusers = {}
        /\ okusers \cup badusers = BatchUsers(request)

\* a completed batch with one user ok and one user bad
C6_Witness ==
    /\ Completed
    /\ okusers # {}
    /\ badusers # {}
    /\ Cardinality(BatchUsers(request)) = 2

(***************************************************************************)
(* C7: a batch with a malformed operation fails as a whole and mutates     *)
(* nothing: rows, existence of the store and shared-owner marker are the   *)
(* same after the request as before, also on a collection not yet shared.  *)
(***************************************************************************)
Malformed(req) ==
    req.authorized /\ xmlPOSTPreconditions(req) /\ Parsed(req).raised # None

C7_MalformedMutatesNothing ==
    (op = "POST" /\ Malformed(request)) =>
        /\ response.code = "FORBIDDEN"
        /\ resourceType = before.rtype
        /\ dbExists = before.db
        /\ INVITE = before.rows

(***************************************************************************)
(* C8: a storage error during one user's mutation does not abort the       *)
(* batch: the batch completes, that user is in badusers and every other    *)
(* user of the batch is applied and reported.                              *)
(***************************************************************************)
C8_StorageErrorIsPerUser ==
    (op = "POST" /\ Logged(StorageError)) =>
        /\ response.code \in {"OK", "MULTI_STATUS"}
        /\ \A i \in 2..Len(log) :
              log[i].ev = StorageError => log[i - 1].userid \in badusers
        /\ okusers \cup badusers = BatchUsers(request)

(***************************************************************************)
(* C9: when the privilege check of a sharing request is denied the request *)
(* ends as an authorization failure and nothing is mutated: the body is    *)
(* not parsed, the collection is not upgraded and the store is unchanged.  *)
(***************************************************************************)
C9_DeniedMutatesNothing ==
    (op = "POST" /\ ~request.authorized) =>
        /\ response.code = "UNAUTHORIZED"
        /\ ~Logged("parse")
        /\ ~Logged("upgradeToShare")
        /\ Collection = before

\* a denied request whose body would have shared the collection and invited
\* a user
C9_Witness ==
    /\ op = "POST"
    /\ ~request.authorized
    /\ xmlPOSTPreconditions(request)
    /\ \E u \in SetUsers(request) : Resolves(u)
    /\ response.code = "UNAUTHORIZED"
    /\ resourceType = 0
    /\ INVITE = {}

(***************************************************************************)
(* C10: downgradeFromShare followed by upgradeToShare yields a shared      *)
(* collection whose invite store is empty: no row from before the          *)
(* downgrade is visible after the upgrade.                                 *)
(***************************************************************************)
C10_DowngradeUpgradeEmpty ==
    [][(op = "downgradeFromShare" /\ op' = "upgradeToShare") =>
        /\ isShared(Collection)'
        /\ dbExists'
        /\ INVITE' = {}
      ]_vars

\* a collection shared anew after rows were written in an earlier sharing
C10_Witness ==
    /\ op = "upgradeToShare"
    /\ nextUID > 1
    /\ isShared(Collection)
    /\ INVITE = {}

(***************************************************************************)
(* C11: running the batch twice with the same set operation for a user id  *)
(* that resolves puts the user in okusers both times and leaves exactly    *)
(* one row for the user after the second run; access, state and summary of *)
(* the row after the second run equal those after the first run, while the *)
(* invite uid is generated afresh by each run and so differs.              *)
(***************************************************************************)
\* a completed batch of the one operation CS:set u is served again and
\* completes again
ReplayedSet(u) ==
    /\ op = "POST" /\ op' = "replay"
    /\ SetUsers(request) = {u} /\ RemoveUsers(request) = {}
    /\ Resolves(u)
    /\ response.code \in {"OK", "MULTI_STATUS"}
    /\ response'.code \in {"OK", "MULTI_STATUS"}

C11_ReplayKeepsContent ==
    [][\A u \in UserIDs :
          ReplayedSet(u) =>
              LET url == validUserIDForShare(directory, u)
              IN  /\ u \in okusers /\ u \in okusers'
                  /\ \E r1 \in INVITE, r2 \in INVITE' :
                        /\ {r \in INVITE : r.userid = url} = {r1}
                        /\ {r \in INVITE' : r.userid = url} = {r2}
                        /\ r2.access = r1.access
                        /\ r2.state = r1.state
                        /\ r2.summary = r1.summary
                        /\ r2.inviteuid # r1.inviteuid
      ]_vars

\* the claim as it stands: every field of the row is as after the first run
C11_ReplayIsNoOp ==
    [][\A u \in UserIDs :
          ReplayedSet(u) =>
              LET url == validUserIDForShare(directory, u)
              IN  /\ u \in okusers /\ u \in okusers'
                  /\ \E r1 \in INVITE, r2 \in INVITE' :
                        /\ {r \in INVITE : r.userid = url} = {r1}
                        /\ {r \in INVITE' : r.userid = url} = {r2}
                        /\ r2 = r1
      ]_vars

\* the second run of CS:set mailto:alice found the row of the first run and
\* left one row with the same access and summary
C11_Witness ==
    /\ op = "replay"
    /\ response.code = "OK"
    /\ SetUsers(request) = {"mailto:alice@example.com"}
    /\ RemoveUsers(request) = {}
    /\ okusers = {"mailto:alice@example.com"}
    /\ \E r1 \in before.rows, r2 \in INVITE :
          /\ before.rows = {r1} /\ INVITE = {r2}
          /\ r1.userid = "/principals/users/alice" /\ r2.userid = r1.userid
          /\ Carries(r1, "mailto:alice@example.com")
          /\ Carries(r2, "mailto:alice@example.com")
          /\ r1.state = "NEEDS-ACTION" /\ r2.state = "NEEDS-ACTION"

(***************************************************************************)
(* C12: validating the invites is idempotent and safe in any state: it     *)
(* never adds or deletes a row, whatever the store holds (also nothing),   *)
(* and with the directory unchanged a second validation right after the    *)
(* first changes no row.                                                   *)
(***************************************************************************)
C12_ValidateIdempotentSafe ==
    op = "inviteProperty" =>
        /\ {r.userid : r \in INVITE} = {r.userid : r \in beforeSweep}
        /\ {r.inviteuid : r \in INVITE} = {r.inviteuid : r \in beforeSweep}
        /\ Cardinality(INVITE) = Cardinality(beforeSweep)
        /\ validateInvites(INVITE, directory) = INVITE

\* a validation outside any batch turned one row INVALID and left another
C12_Witness ==
    /\ op = "inviteProperty"
    /\ Cardinality(INVITE) = 2
    /\ \E r \in INVITE : r.state = "INVALID" /\ r \notin beforeSweep
    /\ \E r \in INVITE : r.state = "NEEDS-ACTION" /\ r \in beforeSweep

(***************************************************************************)
(* C13: addOrUpdateRecord(invite) is an upsert keyed by the user id: after *)
(* it recordForUserID(invite.userid) returns a row equal to invite in      *)
(* every field, and a row that user id had under another invite uid is     *)
(* gone, so recordForInviteUID of the old invite uid finds nothing.        *)
(***************************************************************************)
C13_UpsertByUserID ==
    op = "addOrUpdateRecord" =>
        /\ recordForUserID(INVITE, arg.userid) = arg
        /\ \A old \in before.rows :
              (old.userid = arg.userid /\ old.inviteuid # arg.inviteuid) =>
                  recordForInviteUID(INVITE, old.inviteuid) = NoRecord

\* a record replaced the row its user id had under another invite uid, next
\* to the row of another user
C13_Witness ==
    /\ op = "addOrUpdateRecord"
    /\ \E old \in before.rows :
          /\ old.userid = arg.userid
          /\ old.inviteuid # arg.inviteuid
          /\ old.state # arg.state
    /\ arg \in INVITE
    /\ Cardinality(INVITE) = 2
    /\ Cardinality(before.rows) = 2

(***************************************************************************)
(* C14: a batch that completes answers with a multi-status report exactly  *)
(* when badusers is not empty, and with the plain success code and no      *)
(* per-user entry when it is empty; in the report every ok user carries    *)
(* the success code and every bad user the forbidden code.                 *)
(***************************************************************************)
Entries == {response.body[i] : i \in 1..Len(response.body)}

C14_MultiStatusIffBad ==
    Completed =>
        /\ response.code = "MULTI_STATUS" <=> badusers # {}
        /\ badusers = {} => response = Answer("OK", << >>)
        /\ response.code = "MULTI_STATUS" =>
              Entries = {<< u, "OK" >> : u \in okusers}
                            \cup {<< u, "FORBIDDEN" >> : u \in badusers}

\* a report with one ok user and one bad user
C14_Witness ==
    /\ Completed
    /\ response.code = "MULTI_STATUS"
    /\ \E u \in okusers, v \in badusers :
          Entries = {<< u, "OK" >>, << v, "FORBIDDEN" >>}

(***************************************************************************)
(* C15: in every report of a batch all the entries of ok users come before *)
(* all the entries of bad users, and within each of the two groups the     *)
(* user ids are in ascending lexical order.                                *)
(***************************************************************************)
\* the place of a user id in the lexical order of the user ids
Rank(userid) == CHOOSE i \in 1..Len(UserIDOrder) : UserIDOrder[i] = userid

C15_ReportOrder ==
    op = "POST" =>
        \A i, j \in 1..Len(response.body) :
            i < j =>
                /\ response.body[i][2] = "FORBIDDEN" =>
                        response.body[j][2] = "FORBIDDEN"
                /\ response.body[i][2] = response.body[j][2] =>
                        Rank(response.body[i][1]) < Rank(response.body[j][1])

\* a report of two ok users and two bad users, where one sorted run of the
\* four would have put a bad user second
C15_Witness ==
    /\ op = "POST"
    /\ response.body =
          << << "/principals/users/alice", "OK" >>,
             << "mailto:alice@example.com", "OK" >>,
             << "/principals/users/bob", "FORBIDDEN" >>,
             << "mailto:bob@example.com", "FORBIDDEN" >> >>

(***************************************************************************)
(* C16: under the default access control list of every principal, every    *)
(* provisioning root and every record type bucket a privilege check gives: *)
(* Authenticated may read; Authenticated may not write; Unauthenticated    *)
(* and All may neither read nor write.                                     *)
(***************************************************************************)
C16_DefaultACL ==
    op = "checkPrivileges" =>
        \A t \in authReadOnlyPrivileges :
            (lookup.principal = t[1] /\ lookup.privilege = t[2]) =>
                (lookup.result = "Allowed" <=> t[3])

\* Authenticated was let to read a principal
C16_Witness ==
    /\ op = "checkPrivileges"
    /\ lookup.resource.kind = "principal"
    /\ lookup.principal = "Authenticated"
    /\ lookup.privilege = "Read"
    /\ lookup.result = "Allowed"

(***************************************************************************)
(* C17: the provisioning root answers principalCollectionURL() with its    *)
(* own url, the url of the provisioning root; a record type bucket under   *)
(* it answers with the bucket's own url, root + type + "/", not with the   *)
(* url of the root.  It is principalCollections() that leads every         *)
(* resource of the hierarchy to the provisioning root alone.               *)
(***************************************************************************)
C17_CollectionURLIsOwnURL ==
    /\ op = "principalCollectionURL" =>
          /\ lookup.resource.kind = "root" => lookup.result = provisioningURL
          /\ lookup.resource.kind = "type" =>
                /\ lookup.result =
                      provisioningURL \o lookup.resource.recordType \o "/"
                /\ lookup.result # provisioningURL
    /\ op = "principalCollections" => lookup.result = {provisioningURL}

\* the claim as it stands: root and buckets all answer with the root url
C17_CollectionURLIsRootURL ==
    op = "principalCollectionURL" => lookup.result = provisioningURL

\* the bucket of the users answered with its own url
C17_Witness ==
    /\ op = "principalCollectionURL"
    /\ lookup.resource = typeResource("users")
    /\ lookup.result = "/principals/users/"

(***************************************************************************)
(* C18: for every record type T of the directory and every record R of     *)
(* type T the principal obtained for R, by principalForRecord or by         *)
(* getChild through the type bucket, has the principal url                 *)
(* root + T + "/" + R.shortName, with no trailing slash; the child names   *)
(* of the root are the record types of the directory and those of a type   *)
(* bucket the short names the directory lists for the type.                *)
(***************************************************************************)
URLOfRecord(record) ==
    provisioningURL \o record.recordType \o "/" \o record.shortName

C18_HierarchyURLs ==
    /\ op = "principalForRecord" =>
          /\ lookup.result # NoResource
          /\ lookup.result.kind = "principal"
          /\ recordURL(lookup.result) = URLOfRecord(lookup.name)
    /\ (op = "getChild" /\ lookup.resource.kind = "type") =>
          IF Record(lookup.resource.recordType, lookup.name)
                \in listRecords(directory, lookup.resource.recordType)
          THEN /\ lookup.result # NoResource
               /\ lookup.result.kind = "principal"
               /\ recordURL(lookup.result) =
                     URLOfRecord(Record(lookup.resource.recordType, lookup.name))
          ELSE lookup.result = NoResource
    /\ op = "principalURL" =>
          /\ lookup.result =
                URLOfRecord(Record(lookup.resource.recordType,
                                   lookup.resource.shortName))
          /\ Len(lookup.result) =
                Len(provisioningURL) + Len(lookup.resource.recordType) + 1
                    + Len(lookup.resource.shortName)
          /\ lookup.resource.recordType = "users" =>
                lookup.result = principalURL(lookup.resource.shortName)
    /\ op = "listChildren" =>
          IF lookup.resource.kind = "root"
          THEN lookup.result = {"users", "groups"}
          ELSE lookup.result =
                  {r.shortName :
                      r \in listRecords(directory, lookup.resource.recordType)}

\* the bucket of the users gave the principal of alice while bob was not
\* listed
C18_Witness ==
    /\ op = "getChild"
    /\ lookup.resource = typeResource("users")
    /\ lookup.name = "alice"
    /\ directory = {"alice"}
    /\ lookup.result # NoResource
    /\ recordURL(lookup.result) = "/principals/users/alice"
    /\ listChildren(directory, lookup.resource) = {"alice"}

(***************************************************************************)
(* C19: within one sharing request the privilege check completes before    *)
(* the body is parsed, the parsing of every operation of the batch         *)
(* completes before the first mutation of the collection or its invite     *)
(* store, the automatic upgrade to shared included, and the validation     *)
(* sweep runs after the last mutation.                                     *)
(***************************************************************************)
MutationEvents == {"upgradeToShare", "addOrUpdateRecord", "removeRecordForUserID"}

C19_StepsInOrder ==
    op = "POST" =>
        \A i, j \in 1..Len(log) :
            /\ (log[i].ev = "authorize" /\ log[j].ev = "parse") => i < j
            /\ (log[i].ev = "parse" /\ log[j].ev \in MutationEvents) => i < j
            /\ (log[i].ev \in MutationEvents /\ log[j].ev = "validateInvites")
                    => i < j

(***************************************************************************)
(* C20: within one batch every removal that remains after the collapse is  *)
(* applied before any set that remains, and every remaining set is applied *)
(* before any collapsed update.                                            *)
(***************************************************************************)
C20_PhasesInOrder ==
    op = "POST" =>
        /\ \A i, j \in 1..Len(log) :
              /\ (log[i].ev = "uninvite" /\ log[j].ev \in {"invite", "update"})
                      => i < j
              /\ (log[i].ev = "invite" /\ log[j].ev = "update") => i < j
        /\ \A i \in 1..Len(log) :
              /\ log[i].ev = "uninvite" =>
                    log[i].userid \in RemoveUsers(request) \ SetUsers(request)
              /\ log[i].ev = "invite" =>
                    log[i].userid \in SetUsers(request) \ RemoveUsers(request)
              /\ log[i].ev = "update" => log[i].userid \in UpdateUsers(request)

\* a batch that completed after a removal, a set and an update, each of
\* which reached the store
C20_Witness ==
    /\ Completed
    /\ \E u, v, w \in UserIDs :
          /\ WroteFor("uninvite", u)
          /\ WroteFor("invite", v)
          /\ WroteFor("update", w)
    /\ Cardinality(INVITE) = 2

(***************************************************************************)
(* C21: every batch that begins applying mutations runs the validation of  *)
(* the invites exactly once, after its last mutation, whatever the         *)
(* outcome of the batch: also when some users are bad and also when a      *)
(* user's mutation raised a storage error.                                 *)
(***************************************************************************)
\* the steps of the log at which an operation of the batch is applied
Applications == {i \in 1..Len(log) : log[i].ev \in {"uninvite", "invite", "update"}}

Sweeps == {i \in 1..Len(log) : log[i].ev = "validateInvites"}

C21_SweepOnceWhateverOutcome ==
    (op = "POST" /\ Applications # {}) =>
        /\ Cardinality(Sweeps) = 1
        /\ \A i \in Sweeps : i = Len(log)

(***************************************************************************)
(* C22: a remove operation finds its user by the normalized or the raw id: *)
(* when the row of a user is stored under the normalized principal url     *)
(* and the remove operation names the user by a raw id that differs from   *)
(* the url, the row is deleted, and after the batch no row of that user    *)
(* remains.                                                                *)
(***************************************************************************)
C22_RemoveByRawID ==
    (Completed /\ SetUsers(request) = {}) =>
        \A u \in RemoveUsers(request) :
            Resolves(u) => RowsOf(validUserIDForShare(directory, u)) = {}

(***************************************************************************)
(* C23: every row written by a set or update operation has state           *)
(* NEEDS-ACTION and the access and summary the operation gives, whether    *)
(* the user had no row before or a row in any state; the invite uid        *)
(* written is generated afresh each time.                                  *)
(***************************************************************************)
\* the principal urls the batch wrote a row for
WrittenURLs ==
    {log[i].userid : i \in {j \in 1..Len(log) : log[j].ev = "addOrUpdateRecord"}}

\* the user id of the set or update applied last to the principal url
LastWriteOf(url) ==
    LET at == {i \in 1..Len(log) :
                  /\ log[i].ev \in {"invite", "update"}
                  /\ validUserIDForShare(directory, log[i].userid) = url}
    IN  log[CHOOSE i \in at : \A j \in at : j <= i].userid

C23_WrittenRow ==
    Completed =>
        \A url \in WrittenURLs :
            \E r \in beforeSweep :
                /\ {x \in beforeSweep : x.userid = url} = {r}
                /\ r.state = "NEEDS-ACTION"
                /\ Carries(r, LastWriteOf(url))
                /\ r.inviteuid \notin {x.inviteuid : x \in before.rows}
                /\ \A x \in beforeSweep : x.inviteuid = r.inviteuid => x = r
                /\ r \in INVITE

\* one batch rewrote a row that was INVALID and created a row next to it
C23_Witness ==
    /\ Completed
    /\ Cardinality(WrittenURLs) = 2
    /\ Cardinality(before.rows) = 1
    /\ \A old \in before.rows : old.state = "INVALID" /\ old.userid \in WrittenURLs
    /\ \A r \in INVITE : r.state = "NEEDS-ACTION"
    /\ Cardinality(INVITE) = 2

(***************************************************************************)
(* C24: the validation of the invites never moves an INVALID invite to     *)
(* NEEDS-ACTION or to any other state, also when its user id resolves      *)
(* again; while the store lasts, a row leaves INVALID only when a set or   *)
(* update operation rewrites it or a remove operation deletes it.          *)
(***************************************************************************)
\* the request wrote or deleted the row stored under userid
Touched(l, userid) ==
    \E i \in 1..Len(l) :
        /\ l[i].ev \in {"addOrUpdateRecord", "removeRecordForUserID"}
        /\ l[i].userid = userid

PrincipalURLs == {principalURL(p) : p \in Principals}

\* the writes of rows that the request's set and update operations made
Writes == {i \in 1..Len(log) : log[i].ev = "addOrUpdateRecord"}

C25_RowsUnderPrincipalURL ==
    /\ \A r \in INVITE : r.userid \in PrincipalURLs
    /\ op = "POST" =>
          \A i \in Writes :
              /\ i > 1
              /\ log[i - 1].ev \in {"invite", "update"}
              /\ validUserIDForShare(directory, log[i - 1].userid) # None
              /\ log[i].userid = validUserIDForShare(directory, log[i - 1].userid)

\* two operations naming their users by mail address wrote both rows under
\* the principal URLs
C25_Witness ==
    /\ Completed
    /\ Cardinality(Writes) = 2
    /\ \A i \in Writes : log[i - 1].userid \notin PrincipalURLs
    /\ {r.userid : r \in INVITE} = PrincipalURLs

(***************************************************************************)
(* The collection under sharing requests and downgrades only: nothing but  *)
(* a request upgrades it.                                                  *)
(***************************************************************************)
ShareRequests ==
    [authorized : BOOLEAN, contentType : ContentTypes, body : BodiesUpTo(1)]

SharePOST == POSTof(ShareRequests)

NextShare ==
    \/ SharePOST
    \/ DowngradeFromShare
    \/ Respond
    \/ DirectoryChange

SpecShare == Init /\ [][NextShare]_vars

(***************************************************************************)
(* C26: a sharing request upgrades the collection only when it is not      *)
(* shared yet, so under sharing requests and downgrades the resource type  *)
(* holds at most one shared-owner marker; and after every request that     *)
(* reaches the processing of its batch the collection is shared and its    *)
(* invite store exists.                                                    *)
(***************************************************************************)
C26_UpgradeOnlyWhenUnshared ==
    /\ resourceType <= 1
    /\ (op = "POST" /\ Logged("upgradeToShare")) => ~isShared(before)
    /\ (op = "POST" /\ isShared(before)) => resourceType = before.rtype
    /\ (op = "POST" /\ Logged("parse")) => isShared(Collection) /\ dbExists

\* a request found the collection shared already, left the marker alone and
\* went on to its batch
C26_Witness ==
    /\ op = "POST"
    /\ isShared(before)
    /\ ~Logged("upgradeToShare")
    /\ Logged("parse")
    /\ resourceType = 1
    /\ dbExists

(***************************************************************************)
(* C27: addOrUpdateRecord for a user, and removeRecordForUserID of a user, *)
(* leave every row of every other user unchanged, also when the record     *)
(* written carries an invite uid that the row of another user holds.       *)
(***************************************************************************)
C27_OtherRowsUnchanged ==
    /\ op = "addOrUpdateRecord" =>
          {r \in INVITE : r.userid # arg.userid}
              = {r \in before.rows : r.userid # arg.userid}
    /\ op = "removeUserFromInvite" =>
          {r \in INVITE : r.userid # arg} = {r \in before.rows : r.userid # arg}

(***************************************************************************)
(* Two requests on one collection, interleaved at single store operations: *)
(* one runs validateInvites, whose steps are its read of all the rows and  *)
(* then, record by record, its check of the user id and its write-back;    *)
(* the other commits additions.  The directory may change in between.      *)
(* beforeSweep holds the records the validation has read and not yet       *)
(* examined, before the collection as the last step found it.              *)
(***************************************************************************)
Step(name, c, given) ==
    /\ SetCollection(c)
    /\ op' = name
    /\ arg' = given
    /\ before' = Collection
    /\ request' = NoRequest
    /\ response' = NoAnswer
    /\ okusers' = {}
    /\ badusers' = {}
    /\ log' = << >>
    /\ lookup' = NoLookup

\* records = self.invitesDB().allRecords()
AllRecords ==
    /\ isShared(Collection)
    /\ dbExists
    /\ beforeSweep = {}
    /\ INVITE # {}
    /\ Step("allRecords", invitesDB(Collection), None)
    /\ beforeSweep' = INVITE
    /\ UNCHANGED << directory, nextUID >>

\* one turn of the loop over the records read
ValidateRecord ==
    /\ beforeSweep # {}
    /\ LET record == Head(allRecords(beforeSweep))
       IN  /\ Step("validateInvites",
                   [invitesDB(Collection) EXCEPT
                       !.rows = validateLoop(<< record >>, INVITE, directory)],
                   record.userid)
           /\ beforeSweep' = beforeSweep \ {record}
    /\ UNCHANGED << directory, nextUID >>

\* the other request commits an addition
InviteUserToShare ==
    /\ isShared(Collection)
    /\ dbExists
    /\ \E userid \in UserIDs, p \in Payloads :
          /\ validUserIDForShare(directory, userid) # None
          /\ \E out \in {inviteUserToShare(Start, directory, userid, p[1], p[2], 0)} :
                /\ out.uid <= MaxUID + 1
                /\ Step("inviteUserToShare", out.c, userid)
                /\ nextUID' = out.uid
    /\ UNCHANGED << directory, beforeSweep >>

\* the directory gains or loses a principal while the requests run
DirectoryChangeMeanwhile ==
    /\ \E p \in Principals :
          directory' = IF p \in directory THEN directory \ {p}
                       ELSE directory \cup {p}
    /\ Step("directoryChange", Collection, None)
    /\ UNCHANGED << nextUID, beforeSweep >>

NextInterleave ==
    \/ UpgradeToShare
    \/ AllRecords
    \/ ValidateRecord
    \/ InviteUserToShare
    \/ DirectoryChangeMeanwhile

SpecInterleave == Init /\ [][NextInterleave]_vars

(***************************************************************************)
(* C28: when two requests on the same collection interleave at single      *)
(* store operations, the validation of one request changes only the state  *)
(* field of a row: it never overwrites the invite uid, access or summary   *)
(* that an addition of the other request committed for the same user       *)
(* between the validation's read of all rows and its write-back.           *)
(***************************************************************************)
\* the rows without their state fields
Stateless(rows) == {[r EXCEPT !.state = None] : r \in rows}

C28_SweepChangesStateOnly ==
    op = "validateInvites" => Stateless(INVITE) = Stateless(before.rows)

(***************************************************************************)
(* C29: when several operations of one batch name the same principal by    *)
(* different raw ids, which the collapse rule does not merge, the store    *)
(* still ends with at most one row for that principal, and each of those   *)
(* raw ids is reported on its own, in okusers or in badusers.              *)
(***************************************************************************)
\* the raw ids by which the batch names principal p
NamesOf(p) == BatchUsers(request) \cap calendarUserAddresses(p)

C29_AliasesOneRowEachReported ==
    Completed =>
        \A p \in Principals :
            Cardinality(NamesOf(p)) >= 2 =>
                /\ Cardinality({r \in INVITE : r.userid \in calendarUserAddresses(p)}) <= 1
                /\ \A u \in NamesOf(p) : (u \in okusers) # (u \in badusers)

\* a batch removed bob by his principal URL and then set him by his mail
\* address: both ids are reported and bob has the one new row
C29_Witness ==
    /\ Completed
    /\ "/principals/users/bob" \in RemoveUsers(request) \ SetUsers(request)
    /\ "mailto:bob@example.com" \in SetUsers(request) \ RemoveUsers(request)
    /\ {"/principals/users/bob", "mailto:bob@example.com"} \subseteq okusers
    /\ RowsOf("/principals/users/bob") # {}
    /\ \E old \in before.rows : old.userid = "/principals/users/bob" /\ old \notin INVITE
    /\ Cardinality(INVITE) = 1

====
